---- MODULE Spec2Model ----
(***************************************************************************)
(* RoughOcTree (arpg/rough_octomap): the key-addressed stair update engine, *)
(* pruning, and the THRESHOLDING / BINNING binary codec.                    *)
(*                                                                         *)
(* Numbers.  Log-odds are integers in hundredths (0.24 is 24).  A          *)
(* roughness is the integer r standing for the float nearest to            *)
(* r / RoughScale; NaN stands for the unset roughness.  A tree is a        *)
(* function from paths (sequences of child indices, <<>> the root) to node *)
(* records; a key is the path of a voxel at depth TreeDepth.               *)
(***************************************************************************)
EXTENDS Integers, Sequences, FiniteSets, TLC

VARIABLES tree, changed_keys, use_change_detection, binary_encoding_mode,
          num_binary_bins, stream, rtree, consumed, last, nops, pc,
          stairs_enabled, msg, rconfig

vars == <<tree, changed_keys, use_change_detection, binary_encoding_mode,
          num_binary_bins, stream, rtree, consumed, last, nops, pc,
          stairs_enabled, msg, rconfig>>

----------------------------------------------------------------------------
(* Bounds of the model *)

TreeDepth == 2
MaxOps == 3
MaxRoughBits == 5
MaxCutHeaders == 2

(* Program constants, log-odds in hundredths *)

clamping_thres_min == -200
clamping_thres_max == 350
occ_prob_thres_log == 0
prob_miss_log == -40
StairHitLogOdds == 24
HasChildrenMark == -20000
NegFltMax == -2000000000
StairThres == 0

(* Roughness scale: a multiple of B-1 for every bin count B up to 64 and   *)
(* of 200, so that k/(B-1), 0.99 and 0.995 are integers of the scale.      *)
RoughScale == 9765 * 40
NaN == 0 - 1
rough_binary_thres == (99 * RoughScale) \div 100

ChildIdx == 0..7
NullNode == <<8>>

----------------------------------------------------------------------------
(* Nodes and the tree structure *)

(* A node as its constructor leaves it.  The header under src/ declares no *)
(* stair_logodds member; its initial value 0 (probability one half) and    *)
(* isNodeStairs, updateStairChildren below follow the specification.       *)
(* copyData is the header's: occupancy, roughness and agent tag.           *)
NewNode == [value |-> 0, rough |-> NaN, stair |-> 0, agent |-> 0]

EmptyTree == [q \in {} |-> NewNode]

isRoughSet(n) == n.rough # NaN

copyData(n, from) == [n EXCEPT !.value = from.value, !.rough = from.rough,
                                !.agent = from.agent]

nodeChildExists(t, p, i) == Append(p, i) \in DOMAIN t

nodeHasChildren(t, p) == \E i \in ChildIdx : nodeChildExists(t, p, i)

createNodeChild(t, p, i) ==
  [q \in (DOMAIN t) \cup {Append(p, i)} |->
      IF q = Append(p, i) THEN NewNode ELSE t[q]]

expandNode(t, p) ==
  [q \in (DOMAIN t) \cup {Append(p, i) : i \in ChildIdx} |->
      IF q \in DOMAIN t THEN t[q] ELSE copyData(NewNode, t[p])]

isNodeOccupied(n) == n.value >= occ_prob_thres_log

isNodeStairs(n) == n.stair > StairThres

(* search(key): the node at key, or the pruned leaf that covers it *)
RECURSIVE searchFrom(_, _, _)
searchFrom(t, p, key) ==
  IF Len(p) = TreeDepth THEN p
  ELSE LET pos == key[Len(p) + 1] IN
       IF nodeChildExists(t, p, pos) THEN searchFrom(t, Append(p, pos), key)
       ELSE IF ~nodeHasChildren(t, p) THEN p
       ELSE NullNode

search(t, key) == IF <<>> \notin DOMAIN t THEN NullNode ELSE searchFrom(t, <<>>, key)

----------------------------------------------------------------------------
(* Aggregation over children *)

RECURSIVE avgRoughLoop(_, _, _, _, _)
avgRoughLoop(t, p, i, m, c) ==
  IF i = 8 THEN [m |-> m, c |-> c]
  ELSE IF nodeChildExists(t, p, i) /\ isRoughSet(t[Append(p, i)])
       THEN avgRoughLoop(t, p, i + 1, m + (t[Append(p, i)].rough \div RoughScale), c + 1)
       ELSE avgRoughLoop(t, p, i + 1, m, c)

getAverageChildRough(t, p) ==
  LET r == avgRoughLoop(t, p, 0, 0, 0) IN
  IF r.c > 0 THEN (r.m \div r.c) * RoughScale ELSE NaN

RECURSIVE maxStairLoop(_, _, _, _)
maxStairLoop(t, p, i, max) ==
  IF i = 8 THEN max
  ELSE IF nodeChildExists(t, p, i) /\ t[Append(p, i)].stair > max
       THEN maxStairLoop(t, p, i + 1, t[Append(p, i)].stair)
       ELSE maxStairLoop(t, p, i + 1, max)

getMaxChildStairLogOdds(t, p) == maxStairLoop(t, p, 0, NegFltMax)

RECURSIVE maxValueLoop(_, _, _, _)
maxValueLoop(t, p, i, max) ==
  IF i = 8 THEN max
  ELSE IF nodeChildExists(t, p, i) /\ t[Append(p, i)].value > max
       THEN maxValueLoop(t, p, i + 1, t[Append(p, i)].value)
       ELSE maxValueLoop(t, p, i + 1, max)

getMaxChildLogOdds(t, p) == maxValueLoop(t, p, 0, NegFltMax)

updateStairChildren(t, p) == [t EXCEPT ![p].stair = getMaxChildStairLogOdds(t, p)]

updateOccupancyChildren(t, p) == [t EXCEPT ![p].value = getMaxChildLogOdds(t, p)]

updateRoughChildren(t, p) == [t EXCEPT ![p].rough = getAverageChildRough(t, p)]

(* a refresh that leaves the roughness of the node as it was *)
updateInnerAttributesNoRough(t, p) ==
  updateStairChildren(updateOccupancyChildren(t, p), p)

(* the three refreshes of one inner node, in the order of the pass *)
updateInnerAttributes(t, p) ==
  updateStairChildren(updateRoughChildren(updateOccupancyChildren(t, p), p), p)

(* the pass with a node refreshed before its children *)
RECURSIVE updateInnerOccupancyPreorder(_, _, _)
updateInnerOccupancyPreorder(t, p, depth) ==
  IF nodeHasChildren(t, p)
  THEN LET RECURSIVE loop(_, _)
           loop(u, i) ==
             IF i = 8 THEN u
             ELSE IF nodeChildExists(u, p, i)
                  THEN loop(updateInnerOccupancyPreorder(u, Append(p, i), depth + 1), i + 1)
                  ELSE loop(u, i + 1)
           t1 == updateInnerAttributes(t, p)
       IN IF depth < TreeDepth THEN loop(t1, 0) ELSE t1
  ELSE t

RECURSIVE updateInnerOccupancyRecurs(_, _, _)
updateInnerOccupancyRecurs(t, p, depth) ==
  IF nodeHasChildren(t, p)
  THEN LET RECURSIVE loop(_, _)
           loop(u, i) ==
             IF i = 8 THEN u
             ELSE IF nodeChildExists(u, p, i)
                  THEN loop(updateInnerOccupancyRecurs(u, Append(p, i), depth + 1), i + 1)
                  ELSE loop(u, i + 1)
           t1 == IF depth < TreeDepth THEN loop(t, 0) ELSE t
       IN updateInnerAttributes(t1, p)
  ELSE t

updateInnerOccupancy(t) == updateInnerOccupancyRecurs(t, <<>>, 0)

----------------------------------------------------------------------------
(* Collapse *)

(* isNodeCollapsible with the children's roughness compared too *)
isNodeCollapsibleRough(t, p) ==
  IF ~nodeChildExists(t, p, 0) THEN FALSE
  ELSE IF nodeHasChildren(t, Append(p, 0)) THEN FALSE
  ELSE \A i \in 1..7 :
         ~( \/ ~nodeChildExists(t, p, i)
            \/ nodeHasChildren(t, Append(p, i))
            \/ ~(t[Append(p, i)].value = t[Append(p, 0)].value)
            \/ ~(t[Append(p, i)].rough = t[Append(p, 0)].rough) )

isNodeCollapsible(t, p) ==
  IF ~nodeChildExists(t, p, 0) THEN FALSE
  ELSE IF nodeHasChildren(t, Append(p, 0)) THEN FALSE
  ELSE \A i \in 1..7 :
         ~( \/ ~nodeChildExists(t, p, i)
            \/ nodeHasChildren(t, Append(p, i))
            \/ ~(t[Append(p, i)].value = t[Append(p, 0)].value) )

pruneNode(t, p) ==
  IF ~isNodeCollapsible(t, p) THEN [ok |-> FALSE, tree |-> t]
  ELSE LET n1 == copyData(t[p], t[Append(p, 0)])
           n2 == IF isRoughSet(n1)
                 THEN [n1 EXCEPT !.rough = getAverageChildRough(t, p)]
                 ELSE n1
           keep == (DOMAIN t) \ {Append(p, i) : i \in ChildIdx}
       IN [ok |-> TRUE, tree |-> [q \in keep |-> IF q = p THEN n2 ELSE t[q]]]

----------------------------------------------------------------------------
(* The stair update engine *)

updateNodeStairLogOdds(n, update) ==
  LET s == n.stair + update IN
  IF s < clamping_thres_min THEN [n EXCEPT !.stair = clamping_thres_min]
  ELSE IF s > clamping_thres_max THEN [n EXCEPT !.stair = clamping_thres_max]
  ELSE [n EXCEPT !.stair = s]

(* trackChange that never takes a (key, false) entry back *)
trackChangeNoCancel(ck, key, node_just_created, occBefore, occAfter) ==
  IF node_just_created
  THEN IF key \in DOMAIN ck THEN ck
       ELSE [k \in (DOMAIN ck) \cup {key} |-> IF k = key THEN TRUE ELSE ck[k]]
  ELSE IF occBefore # occAfter /\ key \notin DOMAIN ck
       THEN [k \in (DOMAIN ck) \cup {key} |-> IF k = key THEN FALSE ELSE ck[k]]
       ELSE ck

(* the changed-keys bookkeeping of the last level; ck maps tracked keys to *)
(* their flag                                                              *)
trackChange(ck, key, node_just_created, occBefore, occAfter) ==
  IF node_just_created
  THEN IF key \in DOMAIN ck THEN ck
       ELSE [k \in (DOMAIN ck) \cup {key} |-> IF k = key THEN TRUE ELSE ck[k]]
  ELSE IF occBefore # occAfter
       THEN IF key \notin DOMAIN ck
            THEN [k \in (DOMAIN ck) \cup {key} |-> IF k = key THEN FALSE ELSE ck[k]]
            ELSE IF ck[key] = FALSE
                 THEN [k \in (DOMAIN ck) \ {key} |-> ck[k]]
                 ELSE ck
       ELSE ck

(* descendChild that creates the requested child only, never expanding *)
descendChildNoExpand(t, p, pos) ==
  IF nodeChildExists(t, p, pos) THEN [tree |-> t, created |-> FALSE]
  ELSE [tree |-> createNodeChild(t, p, pos), created |-> TRUE]

(* descendChild that fills all 8 slots whenever the requested one is empty *)
descendChildAlwaysExpand(t, p, pos) ==
  IF nodeChildExists(t, p, pos) THEN [tree |-> t, created |-> FALSE]
  ELSE [tree |-> expandNode(t, p), created |-> ~nodeHasChildren(t, p)]

descendChild(t, p, pos) ==
  IF nodeChildExists(t, p, pos) THEN [tree |-> t, created |-> FALSE]
  ELSE IF ~nodeHasChildren(t, p)
       THEN [tree |-> expandNode(t, p), created |-> FALSE]
       ELSE [tree |-> createNodeChild(t, p, pos), created |-> TRUE]

(* an unwinding that keeps returning the updated child after a prune *)
RECURSIVE updateNodeStairsRecursKeepRet(_, _, _, _, _, _, _)
updateNodeStairsRecursKeepRet(t, ck, ucd, p, node_just_created, key, log_odds_update) ==
  IF Len(p) < TreeDepth
  THEN LET pos == key[Len(p) + 1]
           d   == descendChild(t, p, pos)
           r   == updateNodeStairsRecursKeepRet(d.tree, ck, ucd, Append(p, pos), d.created,
                                                key, log_odds_update)
           pr  == pruneNode(r.tree, p)
       IN IF pr.ok
          THEN [tree |-> pr.tree, ck |-> r.ck, ret |-> r.ret]
          ELSE [tree |-> updateStairChildren(r.tree, p), ck |-> r.ck, ret |-> r.ret]
  ELSE LET n2 == updateNodeStairLogOdds(t[p], log_odds_update)
           t2 == [t EXCEPT ![p] = n2]
       IN IF ucd
          THEN [tree |-> t2,
                ck   |-> trackChange(ck, key, node_just_created,
                                     isNodeStairs(t[p]), isNodeStairs(n2)),
                ret  |-> p]
          ELSE [tree |-> t2, ck |-> ck, ret |-> p]

RECURSIVE updateNodeStairsRecurs(_, _, _, _, _, _, _)
updateNodeStairsRecurs(t, ck, ucd, p, node_just_created, key, log_odds_update) ==
  IF Len(p) < TreeDepth
  THEN LET pos == key[Len(p) + 1]
           d   == descendChild(t, p, pos)
           r   == updateNodeStairsRecurs(d.tree, ck, ucd, Append(p, pos), d.created,
                                         key, log_odds_update)
           pr  == pruneNode(r.tree, p)
       IN IF pr.ok
          THEN [tree |-> pr.tree, ck |-> r.ck, ret |-> p]
          ELSE [tree |-> updateStairChildren(r.tree, p), ck |-> r.ck, ret |-> r.ret]
  ELSE LET n2 == updateNodeStairLogOdds(t[p], log_odds_update)
           t2 == [t EXCEPT ![p] = n2]
       IN IF ucd
          THEN [tree |-> t2,
                ck   |-> trackChange(ck, key, node_just_created,
                                     isNodeStairs(t[p]), isNodeStairs(n2)),
                ret  |-> p]
          ELSE [tree |-> t2, ck |-> ck, ret |-> p]

(* earlyAbort that tests the lower rail only *)
earlyAbortMinOnly(t, leaf, log_odds_update) ==
  /\ leaf # NullNode
  /\ log_odds_update <= 0
  /\ t[leaf].stair <= clamping_thres_min

earlyAbort(t, leaf, log_odds_update) ==
  /\ leaf # NullNode
  /\ \/ (log_odds_update >= 0 /\ t[leaf].stair >= clamping_thres_max)
     \/ (log_odds_update <= 0 /\ t[leaf].stair <= clamping_thres_min)

updateNodeStairs(t, ck, ucd, key, log_odds_update) ==
  LET leaf == search(t, key) IN
  IF earlyAbort(t, leaf, log_odds_update)
  THEN [tree |-> t, ck |-> ck, ret |-> leaf, early |-> TRUE]
  ELSE LET t1 == IF <<>> \notin DOMAIN t
                 THEN [q \in {<<>>} |-> NewNode]
                 ELSE t
           r  == updateNodeStairsRecurs(t1, ck, ucd, <<>>, <<>> \notin DOMAIN t, key,
                                        log_odds_update)
       IN [tree |-> r.tree, ck |-> r.ck, ret |-> r.ret, early |-> FALSE]

----------------------------------------------------------------------------
(* Floats.  F32Dir(num, den): the sign of float(num/den) - num/den, the    *)
(* direction in which the nearest single-precision value (24 significant   *)
(* bits, ties to even) lies.  Long division keeps only the remainder.      *)

RECURSIVE normUp(_, _)
normUp(num, den) == IF num >= den THEN num ELSE normUp(2 * num, den)

RECURSIVE normDown(_, _)
normDown(num, den) == IF num < 2 * den THEN den ELSE normDown(num, 2 * den)

RECURSIVE divBits(_, _, _, _)
divBits(rem, den, n, lastbit) ==
  IF n = 0 THEN [rem |-> rem, lastbit |-> lastbit]
  ELSE IF 2 * rem >= den THEN divBits(2 * rem - den, den, n - 1, 1)
       ELSE divBits(2 * rem, den, n - 1, 0)

F32Dir(num, den) ==
  IF num = 0 THEN 0
  ELSE LET d == normDown(num, den)
           n == normUp(num, d)
           r == divBits(n - d, d, 23, 1)
       IN IF r.rem = 0 THEN 0
          ELSE IF 2 * r.rem > d THEN 1
          ELSE IF 2 * r.rem < d THEN 0 - 1
          ELSE IF r.lastbit = 1 THEN 1 ELSE 0 - 1

RECURSIVE Pow2(_)
Pow2(n) == IF n = 0 THEN 1 ELSE 2 * Pow2(n - 1)

RECURSIVE Log2(_)
Log2(n) == IF n < 2 THEN 0 ELSE 1 + Log2(n \div 2)

Bit(x, j) == (x \div Pow2(j)) % 2

----------------------------------------------------------------------------
(* Codec configuration *)

THRESHOLDING == "THRESHOLDING"
BINNING == "BINNING"

num_rough_bits(bins) == Log2(bins)

num_bits_per_node(mode, bins) ==
  IF mode = THRESHOLDING THEN 3 ELSE 2 + num_rough_bits(bins) + 1

(* binIndex with the bin size rounded to four decimals (0.0667 for 16 bins) *)
binIndexRounded(rough, bins) ==
  (rough * 100) \div (((10000 + (bins - 1) \div 2) \div (bins - 1)) * (RoughScale \div 100))

(* int binidx = floor(rough / binsize), rough a float, binsize a double *)
binIndex(rough, bins) ==
  LET x == rough * (bins - 1) IN
  IF x % RoughScale = 0 /\ F32Dir(rough, RoughScale) < 0
  THEN (x \div RoughScale) - 1
  ELSE x \div RoughScale

(* float rough = binidx * binsize *)
binRough(binidx, bins) == (binidx * RoughScale) \div (bins - 1)

----------------------------------------------------------------------------
(* Writer *)

(* writeChildBit with the rough bit set from the threshold on (>=) *)
writeChildBitAtThres(t, p, i, v, mode, bins) ==
  IF ~nodeChildExists(t, p, i) THEN 0
  ELSE LET c == Append(p, i) IN
       IF nodeHasChildren(t, c) THEN (IF v < 2 THEN 1 ELSE 0)
       ELSE IF isNodeOccupied(t[c])
            THEN IF v = 0 THEN 0
                 ELSE IF v = 1 THEN 1
                 ELSE IF mode = THRESHOLDING
                      THEN (IF t[c].rough # NaN /\ t[c].rough >= rough_binary_thres
                            THEN 1 ELSE 0)
                      ELSE IF v < 2 + num_rough_bits(bins)
                           THEN (IF isRoughSet(t[c])
                                 THEN Bit(binIndex(t[c].rough, bins), v - 2)
                                 ELSE 0)
                           ELSE (IF isNodeStairs(t[c]) THEN 1 ELSE 0)
            ELSE (IF v = 0 THEN 1 ELSE 0)

(* the bit children_access(i, v) holds when the header of node p is written *)
(* writeChildBit with the owner of a free leaf in the spare third bit *)
writeChildBitAgent(t, p, i, v, mode, bins) ==
  IF ~nodeChildExists(t, p, i) THEN 0
  ELSE LET c == Append(p, i) IN
       IF nodeHasChildren(t, c) THEN (IF v < 2 THEN 1 ELSE 0)
       ELSE IF isNodeOccupied(t[c])
            THEN IF v = 0 THEN 0
                 ELSE IF v = 1 THEN 1
                 ELSE IF mode = THRESHOLDING
                      THEN (IF t[c].rough # NaN /\ t[c].rough > rough_binary_thres
                            THEN 1 ELSE 0)
                      ELSE IF v < 2 + num_rough_bits(bins)
                           THEN (IF isRoughSet(t[c])
                                 THEN Bit(binIndex(t[c].rough, bins), v - 2)
                                 ELSE 0)
                           ELSE (IF isNodeStairs(t[c]) THEN 1 ELSE 0)
            ELSE (IF v = 0 THEN 1 ELSE IF v = 2 THEN t[c].agent % 2 ELSE 0)

(* writeChildBit with the bin index written from its top bit down *)
writeChildBitMsbFirst(t, p, i, v, mode, bins) ==
  IF ~nodeChildExists(t, p, i) THEN 0
  ELSE LET c == Append(p, i) IN
       IF nodeHasChildren(t, c) THEN (IF v < 2 THEN 1 ELSE 0)
       ELSE IF isNodeOccupied(t[c])
            THEN IF v = 0 THEN 0
                 ELSE IF v = 1 THEN 1
                 ELSE IF mode = THRESHOLDING
                      THEN (IF t[c].rough # NaN /\ t[c].rough > rough_binary_thres
                            THEN 1 ELSE 0)
                      ELSE IF v < 2 + num_rough_bits(bins)
                           THEN (IF isRoughSet(t[c])
                                 THEN Bit(binIndex(t[c].rough, bins),
                                          num_rough_bits(bins) - 1 - (v - 2))
                                 ELSE 0)
                           ELSE (IF isNodeStairs(t[c]) THEN 1 ELSE 0)
            ELSE (IF v = 0 THEN 1 ELSE 0)

writeChildBit(t, p, i, v, mode, bins) ==
  IF ~nodeChildExists(t, p, i) THEN 0
  ELSE LET c == Append(p, i) IN
       IF nodeHasChildren(t, c) THEN (IF v < 2 THEN 1 ELSE 0)
       ELSE IF isNodeOccupied(t[c])
            THEN IF v = 0 THEN 0
                 ELSE IF v = 1 THEN 1
                 ELSE IF mode = THRESHOLDING
                      THEN (IF t[c].rough # NaN /\ t[c].rough > rough_binary_thres
                            THEN 1 ELSE 0)
                      ELSE IF v < 2 + num_rough_bits(bins)
                           THEN (IF isRoughSet(t[c])
                                 THEN Bit(binIndex(t[c].rough, bins), v - 2)
                                 ELSE 0)
                           ELSE (IF isNodeStairs(t[c]) THEN 1 ELSE 0)
            ELSE (IF v = 0 THEN 1 ELSE 0)

(* the bit buffer of one node header, index child * bitsPerChild + offset *)
writeBits(t, p, mode, bins) ==
  LET w == num_bits_per_node(mode, bins) IN
  [idx \in 0..(8 * w - 1) |-> writeChildBit(t, p, idx \div w, idx % w, mode, bins)]

RECURSIVE packByte(_, _, _)
packByte(bits, b, j) ==
  IF j = 8 THEN 0 ELSE bits[b * 8 + j] * Pow2(j) + packByte(bits, b, j + 1)

(* the bytes flushed for one header: one byte after every 8th bit *)
writeHeader(bits) ==
  LET n == Cardinality(DOMAIN bits) \div 8 IN
  [b \in 1..n |-> packByte(bits, b - 1, 0)]

RECURSIVE writeBinaryNode(_, _, _, _)
RECURSIVE writeChildren(_, _, _, _, _)
writeChildren(t, p, i, mode, bins) ==
  IF i = 8 THEN <<>>
  ELSE IF nodeChildExists(t, p, i) /\ nodeHasChildren(t, Append(p, i))
       THEN writeBinaryNode(t, Append(p, i), mode, bins)
              \o writeChildren(t, p, i + 1, mode, bins)
       ELSE writeChildren(t, p, i + 1, mode, bins)

writeBinaryNode(t, p, mode, bins) ==
  writeHeader(writeBits(t, p, mode, bins)) \o writeChildren(t, p, 0, mode, bins)

writeBinaryData(t, mode, bins) ==
  IF <<>> \in DOMAIN t THEN writeBinaryNode(t, <<>>, mode, bins) ELSE <<>>

----------------------------------------------------------------------------
(* Reader.  s is the byte stream, pos the number of bytes consumed so far; *)
(* junk is what a read past the end leaves in the byte buffer.             *)

byteAt(s, pos, junk) == IF pos < Len(s) THEN s[pos + 1] ELSE junk

(* a reader that takes one byte less per header *)
headerBytesShort(mode, bins) == num_bits_per_node(mode, bins) - 1

headerBytesRead(mode, bins) == num_bits_per_node(mode, bins)

(* the bit buffer the reader rebuilds from the header bytes at pos *)
readBits(s, pos, mode, bins, junk) ==
  [idx \in 0..(8 * num_bits_per_node(mode, bins) - 1) |->
      IF idx < 8 * headerBytesRead(mode, bins)
      THEN Bit(byteAt(s, pos + (idx \div 8), junk), idx % 8)
      ELSE 0]

RECURSIVE roughBitsValue(_, _, _, _)
roughBitsValue(bits, base, j, n) ==
  IF j = n THEN 0
  ELSE bits[base + j] * Pow2(j) + roughBitsValue(bits, base, j + 1, n)

(* readChild taking 01 for the free leaf and 10 for the occupied one *)
readChildSwapped(bits, i, mode, bins) ==
  LET w  == num_bits_per_node(mode, bins)
      b0 == bits[i * w]
      b1 == bits[i * w + 1]
  IN IF b0 = 0 /\ b1 = 1
     THEN [made |-> TRUE, node |-> [NewNode EXCEPT !.value = clamping_thres_min]]
     ELSE IF b0 = 1 /\ b1 = 0
     THEN IF mode = THRESHOLDING
          THEN [made |-> TRUE,
                node |-> [NewNode EXCEPT
                            !.value = clamping_thres_max,
                            !.rough = IF bits[i * w + 2] = 1
                                      THEN rough_binary_thres ELSE 0]]
          ELSE LET nrb == num_rough_bits(bins)
                   binidx == roughBitsValue(bits, i * w + 2, 0, nrb)
               IN [made |-> TRUE,
                   node |-> [NewNode EXCEPT
                               !.value = clamping_thres_max,
                               !.rough = binRough(binidx, bins),
                               !.stair = bits[i * w + 2 + nrb] * 100]]
     ELSE IF b0 = 1 /\ b1 = 1
     THEN [made |-> TRUE, node |-> [NewNode EXCEPT !.value = HasChildrenMark]]
     ELSE [made |-> FALSE, node |-> NewNode]

(* the first loop of the reader: the child the class bits of slot i call for *)
readChild(bits, i, mode, bins) ==
  LET w  == num_bits_per_node(mode, bins)
      b0 == bits[i * w]
      b1 == bits[i * w + 1]
  IN IF b0 = 1 /\ b1 = 0
     THEN [made |-> TRUE, node |-> [NewNode EXCEPT !.value = clamping_thres_min]]
     ELSE IF b0 = 0 /\ b1 = 1
     THEN IF mode = THRESHOLDING
          THEN [made |-> TRUE,
                node |-> [NewNode EXCEPT
                            !.value = clamping_thres_max,
                            !.rough = IF bits[i * w + 2] = 1
                                      THEN rough_binary_thres ELSE 0]]
          ELSE LET nrb == num_rough_bits(bins)
                   binidx == roughBitsValue(bits, i * w + 2, 0, nrb)
               IN [made |-> TRUE,
                   node |-> [NewNode EXCEPT
                               !.value = clamping_thres_max,
                               !.rough = binRough(binidx, bins),
                               !.stair = bits[i * w + 2 + nrb] * 100]]
     ELSE IF b0 = 1 /\ b1 = 1
     THEN [made |-> TRUE, node |-> [NewNode EXCEPT !.value = HasChildrenMark]]
     ELSE [made |-> FALSE, node |-> NewNode]

(* a has-children test that also takes a free leaf for a parent *)
isMarkedOrFree(n) == n.value <= clamping_thres_min

isMarkedHasChildren(n) == n.value = HasChildrenMark

RECURSIVE readBinaryNode(_, _, _, _, _, _, _)
RECURSIVE readChildren(_, _, _, _, _, _, _, _)

(* a second loop that reads the subtree and leaves the mark on the child *)
RECURSIVE readChildrenKeepMark(_, _, _, _, _, _, _, _)
readChildrenKeepMark(t, s, pos, p, i, mode, bins, junk) ==
  IF i = 8 THEN [tree |-> t, pos |-> pos]
  ELSE IF nodeChildExists(t, p, i) /\ isMarkedHasChildren(t[Append(p, i)])
       THEN LET c  == Append(p, i)
                r  == readBinaryNode(t, s, pos, c, mode, bins, junk)
                t1 == [r.tree EXCEPT ![c].value = HasChildrenMark]
            IN readChildrenKeepMark(t1, s, r.pos, p, i + 1, mode, bins, junk)
       ELSE readChildrenKeepMark(t, s, pos, p, i + 1, mode, bins, junk)

readChildren(t, s, pos, p, i, mode, bins, junk) ==
  IF i = 8 THEN [tree |-> t, pos |-> pos]
  ELSE IF nodeChildExists(t, p, i) /\ isMarkedHasChildren(t[Append(p, i)])
       THEN LET c  == Append(p, i)
                r  == readBinaryNode(t, s, pos, c, mode, bins, junk)
                t1 == [r.tree EXCEPT ![c].value = getMaxChildLogOdds(r.tree, c)]
                t2 == IF mode = BINNING
                      THEN [t1 EXCEPT ![c].stair = getMaxChildStairLogOdds(t1, c)]
                      ELSE t1
            IN readChildren(t2, s, r.pos, p, i + 1, mode, bins, junk)
       ELSE readChildren(t, s, pos, p, i + 1, mode, bins, junk)

readBinaryNode(t, s, pos, p, mode, bins, junk) ==
  LET bits == readBits(s, pos, mode, bins, junk)
      made == {i \in ChildIdx : readChild(bits, i, mode, bins).made}
      t1   == [q \in (DOMAIN t) \cup {Append(p, i) : i \in made} |->
                 IF q = p THEN [t[p] EXCEPT !.value = clamping_thres_max]
                 ELSE IF q \in DOMAIN t THEN t[q]
                 ELSE readChild(bits, q[Len(q)], mode, bins).node]
  IN readChildren(t1, s, pos + headerBytesRead(mode, bins), p, 0, mode, bins, junk)

(* a readBinaryData that reads into the root the tree already has *)
readBinaryDataMerge(t, s, mode, bins, junk) ==
  readBinaryNode(IF <<>> \in DOMAIN t THEN t ELSE [q \in {<<>>} |-> NewNode],
                 s, 0, <<>>, mode, bins, junk)

(* readBinaryData: rejected when the tree already has a root *)
readBinaryData(t, s, mode, bins, junk) ==
  IF <<>> \in DOMAIN t THEN [tree |-> t, pos |-> 0]
  ELSE readBinaryNode([q \in {<<>>} |-> NewNode], s, 0, <<>>, mode, bins, junk)

----------------------------------------------------------------------------
(* Trees the callers build or receive: the inputs of the model.  A root   *)
(* whose slot 0 is of kind X, slot 3 of kind Y and the other slots of kind *)
(* Z; every inner child has slot 0 of kind U and the other slots of kind   *)
(* V.  The attributes of a leaf vary with its path and with a.             *)

Kinds == {"absent", "free", "occ", "inner"}
LeafKinds == {"absent", "free", "occ"}

RoughVals == <<NaN, 0, RoughScale, RoughScale \div 3, (4 * RoughScale) \div 5,
               (199 * RoughScale) \div 200, rough_binary_thres,
               RoughScale \div 31, (2 * RoughScale) \div 3>>
StairVals == <<0, 100, clamping_thres_min, clamping_thres_max, 24>>
FreeVals == <<clamping_thres_min, prob_miss_log>>
OccVals == <<clamping_thres_max, occ_prob_thres_log, 85>>

RECURSIVE pathSum(_)
pathSum(q) == IF q = <<>> THEN 0 ELSE Head(q) + pathSum(Tail(q))

Pick(seq, h) == seq[(h % Len(seq)) + 1]

GenLeaf(kind, q, a) ==
  LET h == pathSum(q) + Len(q) + a IN
  [value |-> IF kind = "occ" THEN Pick(OccVals, h) ELSE Pick(FreeVals, h),
   rough |-> Pick(RoughVals, h + (IF kind = "occ" THEN 0 ELSE 2)),
   stair |-> Pick(StairVals, h),
   agent |-> h % 3]

Aggregate(t, p) ==
  IF nodeHasChildren(t, p)
  THEN [t EXCEPT ![p].value = getMaxChildLogOdds(t, p),
                 ![p].stair = getMaxChildStairLogOdds(t, p)]
  ELSE t

RECURSIVE AggregateAll(_, _)
AggregateAll(t, ps) ==
  IF ps = {} THEN t
  ELSE LET p == CHOOSE x \in ps : \A y \in ps : Len(x) >= Len(y)
       IN AggregateAll(Aggregate(t, p), ps \ {p})

GenTree(X, Y, Z, U, V, a) ==
  LET rootKind(i) == IF i = 0 THEN X ELSE IF i = 3 THEN Y ELSE Z
      subKind(j)  == IF j = 0 THEN U ELSE V
      d1 == {<<i>> : i \in {k \in ChildIdx : rootKind(k) # "absent"}}
      d2 == {<<i, j>> : i \in {k \in ChildIdx : rootKind(k) = "inner"},
                        j \in {k \in ChildIdx : subKind(k) # "absent"}}
      dom == {<<>>} \cup d1 \cup d2
      t0 == [q \in dom |->
               IF q = <<>>
               THEN (IF d1 = {}
                     THEN [NewNode EXCEPT !.value = Pick(<<clamping_thres_max,
                                                           clamping_thres_min,
                                                           occ_prob_thres_log>>, a)]
                     ELSE NewNode)
               ELSE IF Len(q) = 1
               THEN (IF rootKind(q[1]) = "inner" THEN NewNode
                     ELSE GenLeaf(rootKind(q[1]), q, a))
               ELSE GenLeaf(subKind(q[2]), q, a)]
  IN AggregateAll(t0, {q \in dom : Len(q) < 2})

SampleTrees ==
  {GenTree(X, Y, Z, U, V, a) :
     X \in Kinds, Y \in Kinds, Z \in Kinds,
     U \in LeafKinds, V \in LeafKinds, a \in 0..2}

BinCounts == {Pow2(k) : k \in 1..MaxRoughBits}

----------------------------------------------------------------------------
(* State *)

NoOp == [op |-> "none", key |-> <<>>, arg |-> 0, ret |-> NullNode, early |-> FALSE]

EmptyKeys == [k \in {} |-> FALSE]

(* no message in flight; no tree made by the receiver *)
NoMsg == [id |-> <<>>, binary |-> FALSE, data |-> <<>>]
NoConfig == [type |-> "none", stairs |-> FALSE, bins |-> 0]

Configs ==
  {[mode |-> THRESHOLDING, bins |-> 16]} \cup
  {[mode |-> BINNING, bins |-> b] : b \in BinCounts}

----------------------------------------------------------------------------
(* The codec on its own: a tree is built, serialized with writeBinaryData  *)
(* and read back with readBinaryData into the empty tree of a receiver.    *)

InitCodec ==
  /\ tree \in SampleTrees
  /\ \E c \in Configs : binary_encoding_mode = c.mode /\ num_binary_bins = c.bins
  /\ changed_keys = EmptyKeys
  /\ use_change_detection = FALSE
  /\ stream = <<>>
  /\ rtree = EmptyTree
  /\ consumed = 0
  /\ last = NoOp
  /\ nops = 0
  /\ pc = "built"
  /\ stairs_enabled = FALSE
  /\ msg = NoMsg
  /\ rconfig = NoConfig

SendTree ==
  /\ pc = "built"
  /\ stream' = writeBinaryData(tree, binary_encoding_mode, num_binary_bins)
  /\ pc' = "written"
  /\ last' = [NoOp EXCEPT !.op = "writeBinaryData"]
  /\ UNCHANGED <<tree, changed_keys, use_change_detection, binary_encoding_mode,
                 stairs_enabled, msg, rconfig,
                 num_binary_bins, rtree, consumed, nops>>

(* the transport loses the tail of a payload of at most MaxCutHeaders   *)
(* node headers                                                         *)
CutLengths == {1}

TruncateStream ==
  /\ pc = "written"
  /\ Len(stream) <= MaxCutHeaders * headerBytesRead(binary_encoding_mode, num_binary_bins)
  /\ \E k \in CutLengths :
       /\ k <= Len(stream)
       /\ stream' = SubSeq(stream, 1, Len(stream) - k)
  /\ pc' = "cut"
  /\ last' = [NoOp EXCEPT !.op = "truncate"]
  /\ UNCHANGED <<tree, changed_keys, use_change_detection, binary_encoding_mode,
                 stairs_enabled, msg, rconfig,
                 num_binary_bins, rtree, consumed, nops>>

(* the bytes std::istream::read leaves in the uninitialized char it was *)
(* given once the stream is at its end                                  *)
JunkBytes == {0, 1}

(* readTree: the payload goes into a stringstream and is decoded; the   *)
(* stream that readBinaryData returns is dropped                        *)
readTree(t, s, mode, bins, junk) ==
  IF Len(s) > 0 THEN readBinaryData(t, s, mode, bins, junk)
  ELSE [tree |-> t, pos |-> 0]

ReceiveTree ==
  /\ pc \in {"written", "cut"}
  /\ \E junk \in IF pc = "cut" THEN JunkBytes ELSE {0} :
       /\ LET r == readTree(rtree, stream, binary_encoding_mode, num_binary_bins, junk)
          IN rtree' = r.tree /\ consumed' = r.pos
       /\ last' = [NoOp EXCEPT !.op = "readBinaryData", !.arg = junk]
  /\ pc' = IF pc = "cut" THEN "readcut" ELSE "read"
  /\ UNCHANGED <<tree, changed_keys, use_change_detection, binary_encoding_mode,
                 stairs_enabled, msg, rconfig,
                 num_binary_bins, stream, nops>>

NextCodec == SendTree \/ TruncateStream \/ ReceiveTree

SpecCodec == InitCodec /\ [][NextCodec]_vars

----------------------------------------------------------------------------
(* The map of one agent: it starts empty, receives a tree from a peer,     *)
(* and is then updated and pruned by key.                                  *)

Keys ==
  {[i \in 1..TreeDepth |-> IF i = 1 THEN k[1] ELSE k[2]] :
     k \in {<<0, 0>>, <<0, 5>>, <<3, 0>>}}

IncomingTrees ==
  { GenTree("occ", "free", "occ", "occ", "occ", 0),
    GenTree("inner", "free", "occ", "occ", "free", 0),
    GenTree("inner", "absent", "absent", "occ", "occ", 1),
    GenTree("inner", "absent", "occ", "occ", "absent", 0),
    GenTree("inner", "absent", "absent", "free", "absent", 0) }

(* what the peer sends, for either mode, with the default 16 bins *)
IncomingStreams ==
  [mode \in {THRESHOLDING, BINNING} |->
     {writeBinaryData(T, mode, 16) : T \in IncomingTrees}]

Deltas == {0 - 600, 600}
SetStairVals == {clamping_thres_max, 1000}
SetRoughVals == {RoughScale \div 3}

Init ==
  /\ tree = EmptyTree
  /\ changed_keys = EmptyKeys
  /\ use_change_detection \in BOOLEAN
  /\ binary_encoding_mode \in {THRESHOLDING, BINNING}
  /\ num_binary_bins = 16
  /\ stream = <<>>
  /\ rtree = EmptyTree
  /\ consumed = 0
  /\ last = NoOp
  /\ nops = 0
  /\ pc = "idle"
  /\ stairs_enabled = FALSE
  /\ msg = NoMsg
  /\ rconfig = NoConfig

Config == <<use_change_detection, binary_encoding_mode, num_binary_bins, rtree, pc,
           stairs_enabled, msg, rconfig>>

Step == nops < MaxOps /\ nops' = nops + 1 /\ pc = "idle"

ReadBinaryData ==
  \E s \in IncomingStreams[binary_encoding_mode] :
    /\ Step
    /\ LET r == readBinaryData(tree, s, binary_encoding_mode, num_binary_bins, 0)
       IN tree' = r.tree /\ consumed' = r.pos
    /\ stream' = s
    /\ last' = [NoOp EXCEPT !.op = "readBinaryData"]
    /\ UNCHANGED <<changed_keys, Config>>

DoUpdateNodeStairs(op, key, log_odds_update) ==
  /\ Step
  /\ LET r == updateNodeStairs(tree, changed_keys, use_change_detection, key,
                               log_odds_update)
     IN /\ tree' = r.tree
        /\ changed_keys' = r.ck
        /\ last' = [op |-> op, key |-> key, arg |-> log_odds_update, ret |-> r.ret,
                    early |-> r.early]
  /\ UNCHANGED <<stream, consumed, Config>>

UpdateNodeStairsBool ==
  \E key \in Keys, is_stairs \in BOOLEAN :
    DoUpdateNodeStairs("updateNodeStairs", key,
                       IF is_stairs THEN StairHitLogOdds ELSE prob_miss_log)

UpdateNodeStairsFloat ==
  \E key \in Keys, log_odds_update \in Deltas :
    DoUpdateNodeStairs("updateNodeStairs", key, log_odds_update)

PruneNode ==
  \E p \in DOMAIN tree :
    /\ Len(p) < TreeDepth
    /\ Step
    /\ LET r == pruneNode(tree, p)
       IN /\ tree' = r.tree
          /\ last' = [op |-> "pruneNode", key |-> p,
                      arg |-> IF r.ok THEN 1 ELSE 0, ret |-> NullNode, early |-> FALSE]
    /\ UNCHANGED <<changed_keys, stream, consumed, Config>>

setNodeStairLogOdds(t, key, value) ==
  LET n == search(t, key) IN
  IF n # NullNode THEN [tree |-> [t EXCEPT ![n].stair = value], ret |-> n]
  ELSE [tree |-> t, ret |-> NullNode]

SetNodeStairLogOdds ==
  \E key \in Keys, value \in SetStairVals :
    /\ Step
    /\ LET r == setNodeStairLogOdds(tree, key, value)
       IN /\ tree' = r.tree
          /\ last' = [op |-> "setNodeStairLogOdds", key |-> key, arg |-> value,
                      ret |-> r.ret, early |-> FALSE]
    /\ UNCHANGED <<changed_keys, stream, consumed, Config>>

integrateNodeStairs(t, key, is_stairs) ==
  LET log_odds_update == IF is_stairs THEN 460 ELSE 0 - 4
      leaf == search(t, key)
  IN IF leaf # NullNode /\ ~earlyAbort(t, leaf, log_odds_update)
     THEN [tree |-> [t EXCEPT ![leaf] = updateNodeStairLogOdds(t[leaf], log_odds_update)],
           ret |-> leaf]
     ELSE [tree |-> t, ret |-> leaf]

IntegrateNodeStairs ==
  \E key \in Keys, is_stairs \in BOOLEAN :
    /\ Step
    /\ LET r == integrateNodeStairs(tree, key, is_stairs)
       IN /\ tree' = r.tree
          /\ last' = [op |-> "integrateNodeStairs", key |-> key,
                      arg |-> IF is_stairs THEN 1 ELSE 0, ret |-> r.ret, early |-> FALSE]
    /\ UNCHANGED <<changed_keys, stream, consumed, Config>>

setNodeRough(t, key, rough) ==
  LET n == search(t, key) IN
  IF n # NullNode THEN [tree |-> [t EXCEPT ![n].rough = rough], ret |-> n]
  ELSE [tree |-> t, ret |-> NullNode]

SetNodeRough ==
  \E key \in Keys, rough \in SetRoughVals :
    /\ Step
    /\ LET r == setNodeRough(tree, key, rough)
       IN /\ tree' = r.tree
          /\ last' = [op |-> "setNodeRough", key |-> key, arg |-> rough, ret |-> r.ret,
                      early |-> FALSE]
    /\ UNCHANGED <<changed_keys, stream, consumed, Config>>

setNodeAgent(t, key, agent) ==
  LET n == search(t, key) IN
  IF n # NullNode THEN [tree |-> [t EXCEPT ![n].agent = agent], ret |-> n]
  ELSE [tree |-> t, ret |-> NullNode]

SetNodeAgent ==
  \E key \in Keys :
    /\ Step
    /\ LET r == setNodeAgent(tree, key, 1)
       IN /\ tree' = r.tree
          /\ last' = [op |-> "setNodeAgent", key |-> key, arg |-> 1, ret |-> r.ret,
                      early |-> FALSE]
    /\ UNCHANGED <<changed_keys, stream, consumed, Config>>

(* what the pass does without a root: updateInnerOccupancy hands the null *)
(* root to updateInnerOccupancyRecurs without testing it, and             *)
(* nodeHasChildren reads node->children through it: the process is        *)
(* stopped, or the read goes through and finds no children                *)
NullRootOutcomes == {"crash", "none"}

(* the tree-wide aggregation pass *)
UpdateInnerOccupancy ==
  /\ Step
  /\ IF tree # EmptyTree
     THEN /\ tree' = updateInnerOccupancy(tree)
          /\ pc' = pc
          /\ last' = [NoOp EXCEPT !.op = "updateInnerOccupancy",
                                  !.arg = IF tree' # tree THEN 1 ELSE 0]
     ELSE \E outcome \in NullRootOutcomes :
            /\ tree' = tree
            /\ pc' = IF outcome = "crash" THEN "crashed" ELSE pc
            /\ last' = [NoOp EXCEPT !.op = "updateInnerOccupancy"]
  /\ UNCHANGED <<changed_keys, stream, consumed, use_change_detection,
                 binary_encoding_mode, num_binary_bins, rtree, stairs_enabled,
                 msg, rconfig>>

(* the caller empties the changed-keys set between two publish cycles *)
ResetChangeDetection ==
  /\ Step
  /\ changed_keys # EmptyKeys
  /\ changed_keys' = EmptyKeys
  /\ last' = [NoOp EXCEPT !.op = "resetChangeDetection"]
  /\ UNCHANGED <<tree, stream, consumed, Config>>

Next ==
  \/ ReadBinaryData
  \/ UpdateNodeStairsBool
  \/ UpdateNodeStairsFloat
  \/ PruneNode
  \/ SetNodeStairLogOdds
  \/ IntegrateNodeStairs
  \/ SetNodeRough
  \/ SetNodeAgent
  \/ UpdateInnerOccupancy
  \/ ResetChangeDetection

Spec == Init /\ [][Next]_vars

----------------------------------------------------------------------------
(* Properties of the codec (SpecCodec) *)

isLeaf(t, p) == p \in DOMAIN t /\ ~nodeHasChildren(t, p)

SameShape(a, b) ==
  /\ DOMAIN a = DOMAIN b
  /\ \A p \in DOMAIN a : nodeHasChildren(a, p) = nodeHasChildren(b, p)

(* the nodes whose header is in the stream, and where each header starts *)
WrittenNodes(t) == {p \in DOMAIN t : p = <<>> \/ nodeHasChildren(t, p)}

IsPrefix(q, p) == Len(q) <= Len(p) /\ SubSeq(p, 1, Len(q)) = q

Before(q, p) ==
  /\ q # p
  /\ \/ IsPrefix(q, p)
     \/ \E k \in 1..Len(q) :
          /\ k <= Len(p)
          /\ SubSeq(q, 1, k - 1) = SubSeq(p, 1, k - 1)
          /\ q[k] < p[k]

HeaderPos(t, p, mode, bins) ==
  num_bits_per_node(mode, bins) * Cardinality({q \in WrittenNodes(t) : Before(q, p)})

(* C1 as claimed: decoding the encoding of a non-empty tree gives the same *)
(* node positions, the same leaf/inner status at every position and the    *)
(* same occupancy class at every leaf, in both modes and for every bin     *)
(* count.                                                                  *)
C1_RoundTripAllLeaves ==
  pc = "read" =>
    /\ SameShape(tree, rtree)
    /\ \A p \in DOMAIN tree :
         (isLeaf(tree, p) /\ p \in DOMAIN rtree)
           => isNodeOccupied(rtree[p]) = isNodeOccupied(tree[p])

(* C1 amended: the same, with the occupancy class kept at every leaf       *)
(* other than the root; a root without children is read back as occupied.  *)
C1_RoundTripNonRootLeaves ==
  pc = "read" =>
    /\ SameShape(tree, rtree)
    /\ \A p \in DOMAIN tree :
         (isLeaf(tree, p) /\ p # <<>>)
           => isNodeOccupied(rtree[p]) = isNodeOccupied(tree[p])
    /\ isLeaf(tree, <<>>) => isNodeOccupied(rtree[<<>>])

C1_Witness ==
  /\ pc = "read"
  /\ binary_encoding_mode = BINNING
  /\ \E p \in DOMAIN rtree, q \in DOMAIN rtree :
       /\ Len(p) = 2 /\ Len(q) = 2
       /\ isNodeOccupied(tree[p]) /\ isNodeOccupied(rtree[p])
       /\ ~isNodeOccupied(tree[q]) /\ ~isNodeOccupied(rtree[q])
  /\ \E i \in ChildIdx : <<i>> \notin DOMAIN rtree

(* C2 as claimed: in BINNING mode, when every set roughness of the tree is *)
(* a whole number of bins (k * binSize, 0 <= k <= B-1), every node of the  *)
(* decoded tree has exactly the roughness of the node it came from, an     *)
(* unset roughness staying unset.                                          *)
BinAligned(r, bins) == r >= 0 /\ r <= RoughScale /\ (r * (bins - 1)) % RoughScale = 0

C2_RoundTripRoughExact ==
  ( /\ pc = "read"
    /\ binary_encoding_mode = BINNING
    /\ \A p \in DOMAIN tree :
         isRoughSet(tree[p]) => BinAligned(tree[p].rough, num_binary_bins) )
  => \A p \in (DOMAIN tree) \cap (DOMAIN rtree) : rtree[p].rough = tree[p].rough

(* C3: in THRESHOLDING mode the third bit of a slot is 1 exactly for an    *)
(* occupied leaf whose roughness is set and above the threshold; read      *)
(* back, an occupied leaf has the threshold itself as roughness when the   *)
(* bit was set and 0 when it was clear.                                    *)
RoughAboveThres(t, c) ==
  /\ c \in DOMAIN t
  /\ ~nodeHasChildren(t, c)
  /\ isNodeOccupied(t[c])
  /\ isRoughSet(t[c])
  /\ t[c].rough > rough_binary_thres

C3_ThresholdBit ==
  (pc = "read" /\ binary_encoding_mode = THRESHOLDING) =>
    /\ \A p \in WrittenNodes(tree) : \A i \in ChildIdx :
         LET at == 8 * HeaderPos(tree, p, THRESHOLDING, num_binary_bins) + 3 * i + 2
         IN (Bit(stream[(at \div 8) + 1], at % 8) = 1) <=> RoughAboveThres(tree, Append(p, i))
    /\ \A c \in DOMAIN rtree :
         (c # <<>> /\ isLeaf(rtree, c) /\ isNodeOccupied(rtree[c])) =>
           rtree[c].rough = IF RoughAboveThres(tree, c) THEN rough_binary_thres ELSE 0

C3_Witness ==
  /\ pc = "read"
  /\ binary_encoding_mode = THRESHOLDING
  /\ \E c \in DOMAIN rtree :
       /\ c \in DOMAIN tree
       /\ isNodeOccupied(tree[c])
       /\ tree[c].rough = (199 * RoughScale) \div 200
       /\ rtree[c].rough = (99 * RoughScale) \div 100
  /\ \E c \in DOMAIN rtree :
       /\ c \in DOMAIN tree
       /\ isNodeOccupied(tree[c])
       /\ tree[c].rough = rough_binary_thres
       /\ rtree[c].rough = 0

----------------------------------------------------------------------------
(* Properties of the update engine (Spec) *)

Stepped(op) == nops' = nops + 1 /\ last'.op = op

AtRail(t, key, log_odds_update) ==
  LET n == search(t, key) IN
  /\ n # NullNode
  /\ \/ (log_odds_update >= 0 /\ t[n].stair >= clamping_thres_max)
     \/ (log_odds_update <= 0 /\ t[n].stair <= clamping_thres_min)

(* C5: an updateStairs whose node at key is already at the rail the update *)
(* pushes towards returns that node and changes neither the tree (no node  *)
(* created, expanded or pruned, no attribute changed) nor the changed-keys *)
(* set.                                                                    *)
C5_EarlyAbortNoEffect ==
  [][ (Stepped("updateNodeStairs") /\ AtRail(tree, last'.key, last'.arg))
        => /\ tree' = tree
           /\ changed_keys' = changed_keys
           /\ last'.ret = search(tree, last'.key)
           /\ last'.early ]_vars

C5_Witness ==
  /\ last.op = "updateNodeStairs"
  /\ last.early
  /\ last.ret # NullNode
  /\ Len(last.ret) < TreeDepth
  /\ use_change_detection

(* C6 as claimed: whenever control is back with the caller every node has  *)
(* exactly 0 or exactly 8 children.                                        *)
NumChildren(t, p) == Cardinality({i \in ChildIdx : nodeChildExists(t, p, i)})

FullOrLeaf(t) == \A p \in DOMAIN t : NumChildren(t, p) \in {0, 8}

C6_ZeroOrEightChildren == FullOrLeaf(tree)

(* C6 amended: updateStairs, pruneNode and the setters keep the property   *)
(* that every node has 0 or 8 children, which the empty tree has; decode   *)
(* creates the child slots the stream marks as present, so the decoded     *)
(* tree has the property exactly when the encoded tree had it.             *)
C6_OpsKeepZeroOrEight ==
  [][ (nops' = nops + 1) =>
        IF last'.op = "readBinaryData" /\ tree = EmptyTree
        THEN FullOrLeaf(tree') <=>
               \E T \in IncomingTrees :
                 /\ FullOrLeaf(T)
                 /\ stream' = writeBinaryData(T, binary_encoding_mode, num_binary_bins)
        ELSE FullOrLeaf(tree) => FullOrLeaf(tree') ]_vars

C6_Witness ==
  /\ last.op = "updateNodeStairs"
  /\ ~last.early
  /\ FullOrLeaf(tree)
  /\ \E p \in DOMAIN tree : Len(p) = 1 /\ NumChildren(tree, p) = 8

(* C7 as claimed: after any mutation the stair log-odds of every node lies *)
(* within [clampMin, clampMax].                                            *)
C7_StairWithinClamp ==
  \A p \in DOMAIN tree :
    tree[p].stair >= clamping_thres_min /\ tree[p].stair <= clamping_thres_max

(* C8 as claimed: with change detection enabled, an updateStairs that      *)
(* materializes the leaf at depth maxDepth of a key that had no node at    *)
(* that depth leaves (key, true) in the changed-keys set.                  *)
C8_FreshLeafRegistered ==
  [][ ( /\ Stepped("updateNodeStairs")
        /\ use_change_detection
        /\ ~last'.early
        /\ last'.key \notin DOMAIN tree )
        => /\ last'.key \in DOMAIN changed_keys'
           /\ changed_keys'[last'.key] = TRUE ]_vars

(* C9: with change detection enabled, an update of an existing maxDepth    *)
(* leaf that flips its is-stairs class inserts (key, false) when the key   *)
(* is untracked, removes the entry when it is tracked with false and       *)
(* leaves it when it is tracked with true; an update that does not flip    *)
(* the class leaves the set as it is.  No update removes or downgrades a   *)
(* (key, true) entry.                                                      *)
ClampStair(x) ==
  IF x < clamping_thres_min THEN clamping_thres_min
  ELSE IF x > clamping_thres_max THEN clamping_thres_max ELSE x

Flips(t, key, log_odds_update) ==
  /\ ~AtRail(t, key, log_odds_update)
  /\ (t[key].stair > StairThres) # (ClampStair(t[key].stair + log_odds_update) > StairThres)

Without(ck, key) == [k \in (DOMAIN ck) \ {key} |-> ck[k]]

With(ck, key, flag) == [k \in (DOMAIN ck) \cup {key} |-> IF k = key THEN flag ELSE ck[k]]

C9_FlipTracking ==
  [][ (Stepped("updateNodeStairs") /\ use_change_detection) =>
        /\ \A k \in DOMAIN changed_keys :
             changed_keys[k] = TRUE => (k \in DOMAIN changed_keys' /\ changed_keys'[k] = TRUE)
        /\ last'.key \in DOMAIN tree =>
             LET key == last'.key IN
             changed_keys' =
               IF ~Flips(tree, key, last'.arg) THEN changed_keys
               ELSE IF key \notin DOMAIN changed_keys THEN With(changed_keys, key, FALSE)
               ELSE IF changed_keys[key] = FALSE THEN Without(changed_keys, key)
               ELSE changed_keys ]_vars

C9_Witness ==
  /\ use_change_detection
  /\ last.op = "updateNodeStairs"
  /\ last.arg = prob_miss_log
  /\ last.key \in DOMAIN tree
  /\ tree[last.key].stair = StairHitLogOdds + prob_miss_log
  /\ last.key \notin DOMAIN changed_keys

(* C10: a node is collapsible exactly when all 8 children exist, none of   *)
(* them has children and all have the occupancy value of child 0; the      *)
(* roughness, stair value and agent tag of the children do not matter.     *)
CollapsibleByDefinition(t, p) ==
  /\ NumChildren(t, p) = 8
  /\ \A i \in ChildIdx : ~nodeHasChildren(t, Append(p, i))
  /\ \A i \in ChildIdx : t[Append(p, i)].value = t[Append(p, 0)].value

OtherAttributes(t, c) ==
  [t EXCEPT ![c].rough = IF t[c].rough = 0 THEN RoughScale ELSE 0,
            ![c].stair = IF t[c].stair = 0 THEN 100 ELSE 0,
            ![c].agent = t[c].agent + 1]

C10_Collapsible ==
  \A p \in DOMAIN tree :
    /\ isNodeCollapsible(tree, p) <=> CollapsibleByDefinition(tree, p)
    /\ \A i \in ChildIdx :
         nodeChildExists(tree, p, i) =>
           isNodeCollapsible(OtherAttributes(tree, Append(p, i)), p)
             = isNodeCollapsible(tree, p)

C10_Witness ==
  \E p \in DOMAIN tree :
    /\ isNodeCollapsible(tree, p)
    /\ \E i \in ChildIdx, j \in ChildIdx :
         /\ tree[Append(p, i)].rough # tree[Append(p, j)].rough
         /\ tree[Append(p, i)].stair # tree[Append(p, j)].stair

----------------------------------------------------------------------------
(* Properties of pruneNode (Spec) *)

sumSetRough(t, p) ==
  LET S == {i \in ChildIdx : nodeChildExists(t, p, i) /\ isRoughSet(t[Append(p, i)])}
      RECURSIVE sum(_)
      sum(X) == IF X = {} THEN 0
                ELSE LET i == CHOOSE x \in X : TRUE
                     IN t[Append(p, i)].rough + sum(X \ {i})
  IN [m |-> sum(S), c |-> Cardinality(S)]

(* the mean of the children's set roughness values, NaN when none is set *)
MeanSetRough(t, p) ==
  LET r == sumSetRough(t, p) IN IF r.c > 0 THEN r.m \div r.c ELSE NaN

ChildrenOf(p) == {Append(p, i) : i \in ChildIdx}

(* C11: pruneNode on a non-collapsible node fails and leaves the tree as   *)
(* it was; on a collapsible node it succeeds, the node takes child 0's     *)
(* occupancy, its roughness becomes the mean of the children's set         *)
(* roughness values exactly when its own roughness was set before the      *)
(* call (and stays unset otherwise), and its 8 children are removed.       *)
C11_PruneNode ==
  [][ Stepped("pruneNode") =>
        LET p == last'.key IN
        IF ~CollapsibleByDefinition(tree, p)
        THEN last'.arg = 0 /\ tree' = tree
        ELSE /\ last'.arg = 1
             /\ DOMAIN tree' = (DOMAIN tree) \ ChildrenOf(p)
             /\ tree'[p].value = tree[Append(p, 0)].value
             /\ tree'[p].rough = IF isRoughSet(tree[p]) THEN MeanSetRough(tree, p)
                                 ELSE tree[p].rough
             /\ \A q \in DOMAIN tree' : q # p => tree'[q] = tree[q] ]_vars

(* the parts of C11 that do not concern the roughness *)
C11_PruneNodeShape ==
  [][ Stepped("pruneNode") =>
        LET p == last'.key IN
        IF ~CollapsibleByDefinition(tree, p)
        THEN last'.arg = 0 /\ tree' = tree
        ELSE /\ last'.arg = 1
             /\ DOMAIN tree' = (DOMAIN tree) \ ChildrenOf(p)
             /\ tree'[p].value = tree[Append(p, 0)].value
             /\ \A q \in DOMAIN tree' : q # p => tree'[q] = tree[q] ]_vars

----------------------------------------------------------------------------
(* Properties of the aggregation (Spec) *)

InnerNodes(t) == {p \in DOMAIN t : nodeHasChildren(t, p)}

(* C12: a second run of the aggregation, on one node or over the whole    *)
(* tree, right after a first one changes no node's occupancy, roughness   *)
(* or stair value.                                                        *)
C12_AggregationIdempotent ==
  tree # EmptyTree =>
    /\ LET t1 == updateInnerOccupancy(tree) IN updateInnerOccupancy(t1) = t1
    /\ \A p \in InnerNodes(tree) :
         LET t1 == updateInnerAttributes(tree, p) IN updateInnerAttributes(t1, p) = t1

C12_Witness ==
  /\ last.op = "updateInnerOccupancy"
  /\ last.arg = 1
  /\ \E p \in InnerNodes(tree) : p # <<>> /\ isRoughSet(tree[p])
  /\ isRoughSet(tree[<<>>])
  /\ updateInnerOccupancy(tree) = tree

----------------------------------------------------------------------------
(* Properties of the decode entry point (Spec) *)

(* C13: readBinaryData on a tree that has a root leaves the tree as it    *)
(* was (same nodes, same attributes) and takes no byte from the stream.   *)
C13_DecodeIntoPopulatedRejected ==
  [][ (Stepped("readBinaryData") /\ tree # EmptyTree)
        => /\ tree' = tree
           /\ Cardinality(DOMAIN tree') = Cardinality(DOMAIN tree)
           /\ consumed' = 0 ]_vars

C13_Witness ==
  /\ last.op = "readBinaryData"
  /\ stream # <<>>
  /\ consumed = 0
  /\ tree # EmptyTree
  /\ tree # readBinaryData(EmptyTree, stream, binary_encoding_mode, num_binary_bins, 0).tree

----------------------------------------------------------------------------
(* Properties of the decode of a truncated stream (SpecCodec) *)

(* C14: when the stream ends before the headers it announces have been    *)
(* read, decode stops there: the tree it leaves holds no node made from   *)
(* a byte that was never read, so it is the same whatever the memory      *)
(* behind the missing bytes holds.                                        *)
C14_TruncatedDecodeStops ==
  pc = "readcut" =>
    \A junk \in JunkBytes :
      readTree(EmptyTree, stream, binary_encoding_mode, num_binary_bins, junk).tree
        = rtree

----------------------------------------------------------------------------
(* The accessors by coordinate.  A coordinate is given by the index of    *)
(* its cell on each axis, floor(coordinate / resolution); the addressable *)
(* volume is the cells -tree_max_val .. tree_max_val - 1.                 *)

tree_max_val == Pow2(TreeDepth - 1)

(* coordToKey without the range test: the discretized coordinate wraps *)
coordToKeyUnchecked(pt) ==
  [ok |-> TRUE, key |-> [a \in 1..3 |-> (pt[a] + tree_max_val) % (2 * tree_max_val)]]

coordToKeyChecked(pt) ==
  LET scaled_coord == [a \in 1..3 |-> pt[a] + tree_max_val] IN
  IF \A a \in 1..3 : scaled_coord[a] >= 0 /\ scaled_coord[a] < 2 * tree_max_val
  THEN [ok |-> TRUE, key |-> scaled_coord]
  ELSE [ok |-> FALSE, key |-> <<0, 0, 0>>]

(* the child index on each level of the descent to an OcTreeKey *)
keyPath(k) ==
  [d \in 1..TreeDepth |->
     Bit(k[1], TreeDepth - d) + 2 * Bit(k[2], TreeDepth - d) + 4 * Bit(k[3], TreeDepth - d)]

getNodeRough(t, key) ==
  LET n == search(t, key) IN IF n # NullNode THEN t[n].rough ELSE NaN

averageNodeRough(t, key, rough) ==
  LET n == search(t, key) IN
  IF n # NullNode
  THEN [tree |-> [t EXCEPT ![n].rough = IF isRoughSet(t[n])
                                        THEN (t[n].rough + rough) \div 2 ELSE rough],
        ret |-> n]
  ELSE [tree |-> t, ret |-> NullNode]

(* getOccupancy, 1 - 1/(1 + exp(logodds)), in ten-thousandths, for the *)
(* log-odds the trees of the model hold                                *)
probability ==
  (clamping_thres_min :> 1192) @@ (prob_miss_log :> 4013) @@ (0 :> 5000) @@
  (85 :> 7006) @@ (clamping_thres_max :> 9707)

integrateNodeRough(t, key, rough) ==
  LET n == search(t, key) IN
  IF n # NullNode
  THEN LET node_prob == probability[t[n].value]
           mul(r, q) == [whole |-> (r \div 10000) * q, part |-> (r % 10000) * q]
           a == mul(t[n].rough, node_prob)
           b == mul(rough, 9900 - node_prob)
           new_rough == a.whole + b.whole + (a.part + b.part) \div 10000
       IN [tree |-> [t EXCEPT ![n].rough = IF isRoughSet(t[n]) THEN new_rough ELSE rough],
           ret |-> n]
  ELSE [tree |-> t, ret |-> NullNode]

(* cells inside and just outside the volume, on either side *)
Points ==
  { <<0, 0, 0>>, <<0 - tree_max_val, tree_max_val - 1, 0>>,
    <<tree_max_val, 0, 0>>, <<0, 0 - tree_max_val - 1, 0>>,
    <<0 - 1, 0, 2 * tree_max_val>> }

CoordRoughVals == {RoughScale \div 5}

InitCoord ==
  /\ tree \in IncomingTrees
  /\ changed_keys = EmptyKeys
  /\ use_change_detection = FALSE
  /\ binary_encoding_mode = BINNING
  /\ num_binary_bins = 16
  /\ stream = <<>>
  /\ rtree = EmptyTree
  /\ consumed = 0
  /\ last = NoOp
  /\ nops = 0
  /\ pc = "coord"
  /\ stairs_enabled = FALSE
  /\ msg = NoMsg
  /\ rconfig = NoConfig

(* a setter by coordinate: byKey, the result of the key-based setter, *)
(* is used only behind the range test                                *)
ByCoordinate(op, pt, v, byKey) ==
  /\ pc = "coord"
  /\ nops < MaxOps
  /\ nops' = nops + 1
  /\ LET r == IF ~coordToKeyChecked(pt).ok THEN [tree |-> tree, ret |-> NullNode]
              ELSE byKey
     IN /\ tree' = r.tree
        /\ last' = [op |-> op, key |-> pt, arg |-> v, ret |-> r.ret, early |-> FALSE]
  /\ UNCHANGED <<changed_keys, stream, rtree, consumed, Config, pc>>

SetNodeAgentAt ==
  \E pt \in Points :
    ByCoordinate("setNodeAgent", pt, 2,
                 setNodeAgent(tree, keyPath(coordToKeyChecked(pt).key), 2))

SetNodeRoughAt ==
  \E pt \in Points, rough \in CoordRoughVals :
    ByCoordinate("setNodeRough", pt, rough,
                 setNodeRough(tree, keyPath(coordToKeyChecked(pt).key), rough))

AverageNodeRoughAt ==
  \E pt \in Points, rough \in CoordRoughVals :
    ByCoordinate("averageNodeRough", pt, rough,
                 averageNodeRough(tree, keyPath(coordToKeyChecked(pt).key), rough))

IntegrateNodeRoughAt ==
  \E pt \in Points, rough \in CoordRoughVals :
    ByCoordinate("integrateNodeRough", pt, rough,
                 integrateNodeRough(tree, keyPath(coordToKeyChecked(pt).key), rough))

GetNodeRoughAt ==
  \E pt \in Points :
    /\ pc = "coord"
    /\ nops < MaxOps
    /\ nops' = nops + 1
    /\ LET c == coordToKeyChecked(pt)
       IN last' = [op |-> "getNodeRough", key |-> pt,
                   arg |-> IF ~c.ok THEN NaN ELSE getNodeRough(tree, keyPath(c.key)),
                   ret |-> NullNode, early |-> FALSE]
    /\ UNCHANGED <<tree, changed_keys, stream, rtree, consumed, Config, pc>>

NextCoord ==
  \/ SetNodeAgentAt
  \/ SetNodeRoughAt
  \/ AverageNodeRoughAt
  \/ IntegrateNodeRoughAt
  \/ GetNodeRoughAt

SpecCoord == InitCoord /\ [][NextCoord]_vars

OutOfVolume(pt) ==
  \E a \in 1..3 : pt[a] < 0 - tree_max_val \/ pt[a] > tree_max_val - 1

(* C15: an accessor by coordinate given a coordinate outside the volume   *)
(* returns the absent result (no node; NaN from getNodeRough) and leaves  *)
(* every node and the structure of the tree as they were.                 *)
C15_OutOfVolumeAbsent ==
  [][ (nops' = nops + 1 /\ OutOfVolume(last'.key))
        => /\ tree' = tree
           /\ last'.ret = NullNode
           /\ last'.op = "getNodeRough" => last'.arg = NaN ]_vars

C15_Witness ==
  /\ last.op = "integrateNodeRough"
  /\ OutOfVolume(last.key)
  /\ last.ret = NullNode
  /\ LET n == search(tree, keyPath(coordToKeyUnchecked(last.key).key))
     IN n # NullNode /\ isRoughSet(tree[n]) /\ tree[n].rough # last.arg

----------------------------------------------------------------------------
(* Properties of the BINNING format (SpecCodec) *)

EightTenths == (4 * RoughScale) \div 5

(* the occupied leaves below the root whose roughness is 0.80 *)
LeavesAtEightTenths ==
  {c \in DOMAIN tree : /\ c # <<>>
                       /\ isLeaf(tree, c)
                       /\ isNodeOccupied(tree[c])
                       /\ tree[c].rough = EightTenths}

(* the bin index the reader takes from the stream for the node c *)
StreamBinIndex(c) ==
  LET p  == SubSeq(c, 1, Len(c) - 1)
      w  == num_bits_per_node(BINNING, num_binary_bins)
      rb == readBits(stream, HeaderPos(tree, p, BINNING, num_binary_bins),
                     BINNING, num_binary_bins, 0)
  IN roughBitsValue(rb, c[Len(c)] * w + 2, 0, num_rough_bits(num_binary_bins))

BinOfEightTenths(k) ==
  (pc = "read" /\ binary_encoding_mode = BINNING /\ num_binary_bins = 16) =>
    \A c \in LeavesAtEightTenths :
      /\ binIndex(tree[c].rough, 16) = k
      /\ StreamBinIndex(c) = k
      /\ rtree[c].rough = binRough(k, 16)

(* C16 as claimed: with 16 bins an occupied leaf of roughness 0.80 is     *)
(* written with bin index 11 and read back with roughness 11/15.          *)
C16_EightTenthsInBin11 == BinOfEightTenths(11)

(* C16 amended: the bin index is floor(0.80 * 15) = 12 and the leaf is    *)
(* read back with roughness 12/15 = 0.80.                                 *)
C16_EightTenthsInBin12 == BinOfEightTenths(12)

C16_Witness ==
  /\ pc = "read"
  /\ binary_encoding_mode = BINNING
  /\ num_binary_bins = 16
  /\ \E c \in LeavesAtEightTenths : Len(c) = 2 /\ rtree[c].rough = EightTenths

----------------------------------------------------------------------------
(* The message layer: binaryMapToMsg / fullMapToMsg put the tree-type     *)
(* identifier and the payload into a message, binaryMsgToMap makes the    *)
(* receiver's tree from it.  A string is the sequence of its characters.  *)

TreeType == <<"R", "o", "u", "g", "h", "O", "c", "T", "r", "e", "e">>
ColorTreeType == <<"C", "o", "l", "o", "r", "O", "c", "T", "r", "e", "e">>

Digits == <<"0", "1", "2", "3", "4", "5", "6", "7", "8", "9">>

RECURSIVE to_string(_)
to_string(n) ==
  IF n < 10 THEN <<Digits[n + 1]>> ELSE to_string(n \div 10) \o <<Digits[(n % 10) + 1]>>

digitValue(c) == CHOOSE d \in 0..9 : Digits[d + 1] = c

(* std::stoi on a string without blanks or sign: the leading digits; no *)
(* digit at the front is the invalid_argument exception                 *)
RECURSIVE stoiLoop(_, _)
stoiLoop(s, acc) ==
  IF s # <<>> /\ \E d \in 0..9 : Digits[d + 1] = Head(s)
  THEN stoiLoop(Tail(s), 10 * acc + digitValue(Head(s)))
  ELSE acc

stoi(s) ==
  IF s # <<>> /\ \E d \in 0..9 : Digits[d + 1] = Head(s)
  THEN [ok |-> TRUE, val |-> stoiLoop(s, 0)]
  ELSE [ok |-> FALSE, val |-> 0]

npos == 0 - 1

(* std::string::find: the first position (from 0) where pat occurs *)
find(s, pat) ==
  LET at == {i \in 0..(Len(s) - Len(pat)) : SubSeq(s, i + 1, i + Len(pat)) = pat}
  IN IF at = {} THEN npos ELSE CHOOSE i \in at : \A j \in at : i <= j

substr(s, pos) == SubSeq(s, pos + 1, Len(s))

Suffix(stairs, bins) ==
  (IF stairs THEN <<"-", "S">> ELSE <<>>) \o <<"-">> \o to_string(bins)

(* RoughOcTreeNode::writeData for every node, in the order of the *)
(* generic tree writer: the node, its child mask, its children     *)
RECURSIVE writeData(_, _)
writeData(t, p) ==
  LET RECURSIVE kids(_)
      kids(i) == IF i = 8 THEN <<>>
                 ELSE (IF nodeChildExists(t, p, i) THEN writeData(t, Append(p, i))
                       ELSE <<>>) \o kids(i + 1)
  IN <<[value |-> t[p].value, rough |-> t[p].rough, stair_logodds |-> t[p].stair],
       {i \in ChildIdx : nodeChildExists(t, p, i)}>> \o kids(0)

binaryMapToMsg(t, mode, bins, stairs) ==
  [id |-> TreeType \o Suffix(stairs, bins), binary |-> TRUE,
   data |-> writeBinaryData(t, mode, bins)]

fullMapToMsg(t) ==
  [id |-> TreeType, binary |-> FALSE,
   data |-> IF t = EmptyTree THEN <<>> ELSE writeData(t, <<>>)]

(* a parse that looks for the bin count behind "RoughOcTree-" only *)
bin_posNoStairs(id) ==
  LET str_pos == find(id, TreeType \o <<"-">>)
  IN [str_pos |-> str_pos, bin_pos |-> 12, stairs |-> FALSE]

(* where the bin count starts in the identifier, and the stairs flag *)
bin_pos(id) ==
  LET str_pos == find(id, TreeType \o <<"-", "S", "-">>)
  IN IF str_pos = npos
     THEN [str_pos |-> find(id, TreeType \o <<"-">>), bin_pos |-> 12, stairs |-> FALSE]
     ELSE [str_pos |-> str_pos, bin_pos |-> 14, stairs |-> TRUE]

(* binaryMsgToMap: the receiver's tree and its configuration; type "NULL" *)
(* is the null pointer, "throw" the exception of stoi                     *)
binaryMsgToMap(m, junk) ==
  IF ~m.binary THEN [type |-> "NULL", stairs |-> FALSE, bins |-> 0, tree |-> EmptyTree]
  ELSE LET b == bin_pos(m.id) IN
       IF m.id = ColorTreeType
       THEN [type |-> "ColorOcTree", stairs |-> FALSE, bins |-> 0, tree |-> EmptyTree]
       ELSE IF b.str_pos # npos
       THEN LET n == stoi(substr(m.id, b.bin_pos)) IN
            IF ~n.ok
            THEN [type |-> "throw", stairs |-> b.stairs, bins |-> 0, tree |-> EmptyTree]
            ELSE [type |-> "RoughOcTree", stairs |-> b.stairs, bins |-> n.val,
                  tree |-> readTree(EmptyTree, m.data, BINNING, n.val, junk).tree]
       ELSE [type |-> "OcTree", stairs |-> FALSE, bins |-> 0, tree |-> EmptyTree]

InitMsg ==
  /\ tree \in IncomingTrees
  /\ changed_keys = EmptyKeys
  /\ use_change_detection = FALSE
  /\ binary_encoding_mode = BINNING
  /\ num_binary_bins \in BinCounts
  /\ stairs_enabled \in BOOLEAN
  /\ stream = <<>>
  /\ rtree = EmptyTree
  /\ consumed = 0
  /\ last = NoOp
  /\ nops = 0
  /\ msg = NoMsg
  /\ rconfig = NoConfig
  /\ pc = "map"

BinaryMapToMsg ==
  /\ pc = "map"
  /\ msg' = binaryMapToMsg(tree, binary_encoding_mode, num_binary_bins, stairs_enabled)
  /\ pc' = "msg"
  /\ UNCHANGED <<tree, changed_keys, use_change_detection, binary_encoding_mode,
                 num_binary_bins, stairs_enabled, stream, rtree, consumed, last, nops,
                 rconfig>>

FullMapToMsg ==
  /\ pc = "map"
  /\ msg' = fullMapToMsg(tree)
  /\ pc' = "msg"
  /\ UNCHANGED <<tree, changed_keys, use_change_detection, binary_encoding_mode,
                 num_binary_bins, stairs_enabled, stream, rtree, consumed, last, nops,
                 rconfig>>

BinaryMsgToMap ==
  /\ pc = "msg"
  /\ LET r == binaryMsgToMap(msg, 0)
     IN /\ rtree' = r.tree
        /\ rconfig' = [type |-> r.type, stairs |-> r.stairs, bins |-> r.bins]
  /\ pc' = "received"
  /\ UNCHANGED <<tree, changed_keys, use_change_detection, binary_encoding_mode,
                 num_binary_bins, stairs_enabled, stream, consumed, last, nops, msg>>

NextMsg == BinaryMapToMsg \/ FullMapToMsg \/ BinaryMsgToMap

SpecMsg == InitMsg /\ [][NextMsg]_vars

(* C17: the identifier binaryMapToMsg writes for a rough tree is parsed   *)
(* by binaryMsgToMap into a rough tree with the sender's bin count and    *)
(* stairs flag, the payload being decoded under that bin count; a message *)
(* not flagged binary gives no tree.                                      *)
C17_TreeTypeRoundTrip ==
  pc = "received" =>
    IF msg.binary
    THEN /\ rconfig = [type |-> "RoughOcTree", stairs |-> stairs_enabled,
                       bins |-> num_binary_bins]
         /\ rtree = readBinaryData(EmptyTree, msg.data, BINNING, num_binary_bins, 0).tree
    ELSE rconfig.type = "NULL" /\ rtree = EmptyTree

C17_Witness ==
  /\ pc = "received"
  /\ msg.binary
  /\ stairs_enabled
  /\ num_binary_bins = 32
  /\ rconfig.bins = 32
  /\ rconfig.stairs
  /\ Cardinality(DOMAIN rtree) > 1

----------------------------------------------------------------------------
(* Properties of the bit stream (SpecCodec) *)

ZeroAgents(t) == [q \in DOMAIN t |-> [t[q] EXCEPT !.agent = 0]]

(* C18: the agent tags do not reach the stream: the bytes written for a   *)
(* tree are those written for the same tree with every agent tag cleared  *)
(* (so two trees that differ in agent tags only give the same bytes), in  *)
(* both modes; and every node made by decode has agent tag 0.             *)
C18_AgentNotInStream ==
  /\ pc \in {"written", "read"} =>
       stream = writeBinaryData(ZeroAgents(tree), binary_encoding_mode, num_binary_bins)
  /\ pc \in {"read", "readcut"} => \A q \in DOMAIN rtree : rtree[q].agent = 0

C18_Witness ==
  /\ pc = "read"
  /\ binary_encoding_mode = THRESHOLDING
  /\ \E q \in DOMAIN tree, r \in DOMAIN tree :
       /\ tree[q].agent = 1 /\ ~isNodeOccupied(tree[q]) /\ rtree[q].agent = 0
       /\ tree[r].agent = 2 /\ isNodeOccupied(tree[r]) /\ rtree[r].agent = 0

(* the two class bits of slot i in the header that starts at byte hp of *)
(* the stream                                                           *)
StreamClassBits(hp, i) ==
  LET w  == num_bits_per_node(binary_encoding_mode, num_binary_bins)
      at == 8 * hp + i * w
  IN <<Bit(stream[(at \div 8) + 1], at % 8),
       Bit(stream[((at + 1) \div 8) + 1], (at + 1) % 8)>>

(* the class of a child slot: 10 free leaf, 01 occupied leaf, 00 absent, *)
(* 11 has children                                                       *)
SlotClass(t, p, i) ==
  LET c == Append(p, i) IN
  IF c \notin DOMAIN t THEN <<0, 0>>
  ELSE IF nodeHasChildren(t, c) THEN <<1, 1>>
  ELSE IF isNodeOccupied(t[c]) THEN <<0, 1>>
  ELSE <<1, 0>>

(* C19: in both modes the writer puts the class of each of the 8 slots    *)
(* into the first two bits of the slot, and the reader makes a free leaf  *)
(* at clampMin for 10, an occupied leaf at clampMax for 01, no node for   *)
(* 00 and, for 11, a node whose own header follows and gives it children. *)
C19_ClassBits ==
  pc = "read" =>
    \A p \in WrittenNodes(tree) : \A i \in ChildIdx :
      LET c  == Append(p, i)
          cl == StreamClassBits(HeaderPos(tree, p, binary_encoding_mode, num_binary_bins), i)
          hc == HeaderPos(tree, c, binary_encoding_mode, num_binary_bins)
      IN /\ cl = SlotClass(tree, p, i)
         /\ cl = <<1, 0>> => /\ isLeaf(rtree, c)
                             /\ rtree[c].value = clamping_thres_min
         /\ cl = <<0, 1>> => /\ isLeaf(rtree, c)
                             /\ rtree[c].value = clamping_thres_max
         /\ cl = <<0, 0>> => c \notin DOMAIN rtree
         /\ cl = <<1, 1>> =>
              /\ c \in DOMAIN rtree
              /\ nodeHasChildren(rtree, c)
              /\ \A j \in ChildIdx :
                   (Append(c, j) \in DOMAIN rtree) <=> (StreamClassBits(hc, j) # <<0, 0>>)

C19_Witness ==
  /\ pc = "read"
  /\ binary_encoding_mode = THRESHOLDING
  /\ {StreamClassBits(HeaderPos(tree, p, binary_encoding_mode, num_binary_bins), i) :
        p \in WrittenNodes(tree), i \in ChildIdx}
       = {<<0, 0>>, <<0, 1>>, <<1, 0>>, <<1, 1>>}
  /\ \E i \in ChildIdx : nodeHasChildren(rtree, <<i>>)

(* the bit at offset v of slot i in the header that starts at byte hp of *)
(* the stream                                                            *)
StreamBit(hp, i, v) ==
  LET w  == num_bits_per_node(binary_encoding_mode, num_binary_bins)
      at == 8 * hp + i * w + v
  IN Bit(stream[(at \div 8) + 1], at % 8)

(* the bin index of the child c as the writer computes it, 0 when there *)
(* is none to write                                                      *)
WrittenBinIndex(c) ==
  IF c \in DOMAIN tree /\ isLeaf(tree, c) /\ isNodeOccupied(tree[c]) /\ isRoughSet(tree[c])
  THEN binIndex(tree[c].rough, num_binary_bins)
  ELSE 0

StairsPositiveLeaf(c) ==
  c \in DOMAIN tree /\ isLeaf(tree, c) /\ isNodeOccupied(tree[c]) /\ isNodeStairs(tree[c])

(* the BINNING layout of a slot, the bin index bit at offset 2 + j being *)
(* the bit order(j) of the index                                         *)
BinningLayout(order(_)) ==
  (binary_encoding_mode = BINNING /\ pc \in {"written", "read"}) =>
    LET nrb == Log2(num_binary_bins) IN
    \A p \in WrittenNodes(tree) :
      LET hp == HeaderPos(tree, p, binary_encoding_mode, num_binary_bins) IN
      \A i \in ChildIdx :
        LET c   == Append(p, i)
            idx == WrittenBinIndex(c)
        IN /\ <<StreamBit(hp, i, 0), StreamBit(hp, i, 1)>> = SlotClass(tree, p, i)
           /\ \A j \in 0..(nrb - 1) : StreamBit(hp, i, 2 + j) = Bit(idx, order(j))
           /\ StreamBit(hp, i, 2 + nrb) = 1 <=> StairsPositiveLeaf(c)

(* C20 as claimed: 2 class bits, then the log2(B) bits of the bin index   *)
(* with the most significant bit first, then the stairs bit, 1 exactly    *)
(* for an occupied leaf classified as stairs.                             *)
C20_LayoutMsbFirst ==
  LET msb(j) == Log2(num_binary_bins) - 1 - j IN BinningLayout(msb)

(* C20 amended: the same with the least significant bit of the bin index *)
(* first.                                                                *)
C20_LayoutLsbFirst ==
  LET lsb(j) == j IN BinningLayout(lsb)

C20_Witness ==
  /\ pc = "read"
  /\ binary_encoding_mode = BINNING
  /\ num_binary_bins = 16
  /\ \E c \in DOMAIN tree :
       /\ WrittenBinIndex(c) = 12
       /\ StairsPositiveLeaf(c)
       /\ rtree[c].rough = binRough(12, 16)
  /\ \E c \in DOMAIN tree :
       /\ c # <<>> /\ isLeaf(tree, c) /\ isNodeOccupied(tree[c]) /\ ~isNodeStairs(tree[c])

----------------------------------------------------------------------------
(* The has-children mark of the decoder (SpecCodec) *)

MaxOver(S) == CHOOSE x \in S : \A y \in S : y <= x

ChildValues(t, p) == {t[Append(p, i)].value : i \in {j \in ChildIdx : nodeChildExists(t, p, j)}}

ChildStairs(t, p) == {t[Append(p, i)].stair : i \in {j \in ChildIdx : nodeChildExists(t, p, j)}}

(* C21: when decode has returned no node holds the has-children mark;     *)
(* every node other than the root that was classified has-children has the *)
(* maximum of its children's log-odds (in BINNING mode also the maximum of *)
(* their stair log-odds); and a free or occupied leaf of the sender is a   *)
(* leaf of the decoded tree, never read as a has-children node.            *)
C21_MarkOnlyDuringDecode ==
  /\ pc \in {"read", "readcut"} =>
       /\ \A q \in DOMAIN rtree : rtree[q].value # HasChildrenMark
       /\ \A q \in DOMAIN rtree :
            (q # <<>> /\ nodeHasChildren(rtree, q)) =>
              /\ rtree[q].value = MaxOver(ChildValues(rtree, q))
              /\ binary_encoding_mode = BINNING =>
                   rtree[q].stair = MaxOver(ChildStairs(rtree, q))
  /\ pc = "read" =>
       \A q \in DOMAIN tree :
         /\ (q # <<>> /\ nodeHasChildren(tree, q)) => nodeHasChildren(rtree, q)
         /\ (q # <<>> /\ isLeaf(tree, q)) => isLeaf(rtree, q)

C21_Witness ==
  /\ pc = "read"
  /\ binary_encoding_mode = BINNING
  /\ \E i \in ChildIdx :
       /\ nodeHasChildren(rtree, <<i>>)
       /\ rtree[<<i>>].value = clamping_thres_max
       /\ rtree[<<i>>].stair = 100
       /\ \E j \in ChildIdx : <<i, j>> \in DOMAIN rtree /\ rtree[<<i, j>>].stair = 0
       /\ \E j \in ChildIdx :
            <<i, j>> \in DOMAIN rtree /\ rtree[<<i, j>>].value = clamping_thres_min
  /\ \E q \in DOMAIN tree :
       /\ isLeaf(tree, q) /\ tree[q].value = clamping_thres_min /\ isLeaf(rtree, q)

----------------------------------------------------------------------------
(* The order of the aggregation pass (Spec) *)

(* every node of ps refreshed once, a node after the nodes below it *)
RECURSIVE RefreshDeepestFirst(_, _)
RefreshDeepestFirst(t, ps) ==
  IF ps = {} THEN t
  ELSE LET p == CHOOSE x \in ps : \A y \in ps : Len(x) >= Len(y)
       IN RefreshDeepestFirst(updateInnerAttributes(t, p), ps \ {p})

----------------------------------------------------------------------------
(* The roughness aggregate (Spec) *)

(* C23: getAverageChildRough of a node is the arithmetic mean of the      *)
(* roughness of the existing children whose roughness is set, and NaN     *)
(* when no child has a set roughness.                                     *)
C23_AverageChildRough ==
  \A p \in InnerNodes(tree) : getAverageChildRough(tree, p) = MeanSetRough(tree, p)

(* the part of C23 that concerns which children count: the result is NaN  *)
(* exactly when no existing child has a set roughness, and children       *)
(* without a set roughness change nothing                                 *)
C23_AverageChildRoughSetness ==
  \A p \in InnerNodes(tree) :
    /\ (getAverageChildRough(tree, p) = NaN) <=> (sumSetRough(tree, p).c = 0)
    /\ avgRoughLoop(tree, p, 0, 0, 0).c = sumSetRough(tree, p).c

----------------------------------------------------------------------------
(* The node returned by the stair update (Spec) *)

(* the nodes of t on the path of key, the root included *)
OnPath(t, key) == {q \in DOMAIN t : IsPrefix(q, key)}

(* C24: the node updateNodeStairs returns is a node of the tree when the  *)
(* call returns: the leaf at key when that leaf is still there, otherwise *)
(* the ancestor that was collapsed into a leaf, which is the deepest node *)
(* left on the path of key.                                               *)
C24_ReturnedNodeExists ==
  [][ Stepped("updateNodeStairs") =>
        LET ret == last'.ret
            key == last'.key
        IN /\ ret \in DOMAIN tree'
           /\ ret \in OnPath(tree', key)
           /\ \A q \in OnPath(tree', key) : Len(q) <= Len(ret)
           /\ isLeaf(tree', ret)
           /\ (key \in DOMAIN tree') <=> (ret = key) ]_vars

C24_Witness ==
  /\ last.op = "updateNodeStairs"
  /\ ~last.early
  /\ Len(last.ret) = 1
  /\ last.ret \in DOMAIN tree
  /\ isLeaf(tree, last.ret)
  /\ \E q \in DOMAIN tree : Len(q) = 2

(* a call that returns the leaf at key, no ancestor having been pruned *)
C24_WitnessLeaf ==
  /\ last.op = "updateNodeStairs"
  /\ ~last.early
  /\ last.ret = last.key

----------------------------------------------------------------------------
(* The refresh on the way back from a stair update (Spec) *)

(* the inner nodes left on the path of key *)
InnerOnPath(t, key) == {q \in OnPath(t, key) : nodeHasChildren(t, q)}

(* C25: when updateNodeStairs has descended and returned, every inner     *)
(* node left on the path of key holds the aggregates of its children:     *)
(* the maximum of their occupancy, the aggregate of their roughness and   *)
(* the maximum of their stair log-odds.                                   *)
C25_PathRefreshed ==
  [][ (Stepped("updateNodeStairs") /\ ~last'.early) =>
        \A p \in InnerOnPath(tree', last'.key) :
          /\ tree'[p].value = MaxOver(ChildValues(tree', p))
          /\ tree'[p].rough = getAverageChildRough(tree', p)
          /\ tree'[p].stair = MaxOver(ChildStairs(tree', p)) ]_vars

(* the occupancy part of C25 alone *)
C25_PathOccupancyRefreshed ==
  [][ (Stepped("updateNodeStairs") /\ ~last'.early) =>
        \A p \in InnerOnPath(tree', last'.key) :
          tree'[p].value = MaxOver(ChildValues(tree', p)) ]_vars

(* the stair part of C25 alone, which the code provides *)
C25_PathStairRefreshed ==
  [][ (Stepped("updateNodeStairs") /\ ~last'.early) =>
        \A p \in InnerOnPath(tree', last'.key) :
          tree'[p].stair = MaxOver(ChildStairs(tree', p)) ]_vars

----------------------------------------------------------------------------
(* The descent of the stair update (Spec) *)

(* the tree the call descends in: the tree given, with a root *)
WithRoot(t) == IF <<>> \in DOMAIN t THEN t ELSE [q \in {<<>>} |-> NewNode]

(* the trees of the descent along key: the tree after d steps at d + 1 *)
RECURSIVE DescentTrees(_, _, _)
DescentTrees(ts, key, d) ==
  IF d > TreeDepth THEN ts
  ELSE DescentTrees(
         Append(ts, descendChild(ts[d], SubSeq(key, 1, d - 1), key[d]).tree), key, d + 1)

Extends(a, b) == \A q \in DOMAIN a : q \in DOMAIN b /\ b[q] = a[q]

(* one step of the descent, from the tree a to the tree b, at the node p *)
DescentStep(a, b, p, slot) ==
  /\ p \in DOMAIN a
  /\ Extends(a, b)
  /\ DOMAIN b =
       IF slot \in DOMAIN a THEN DOMAIN a
       ELSE IF \E i \in ChildIdx : Append(p, i) \in DOMAIN a
            THEN (DOMAIN a) \cup {slot}
            ELSE (DOMAIN a) \cup ChildrenOf(p)

(* the tree u the call leaves, against the tree b at the end of the descent *)
DescentEnd(b, u, key, delta) ==
  /\ key \in DOMAIN b
  /\ DOMAIN u \subseteq DOMAIN b
  /\ \A q \in DOMAIN b :
       q \notin DOMAIN u => \E k \in 0..(Len(q) - 1) : isLeaf(u, SubSeq(q, 1, k))
  /\ key \in DOMAIN u => u[key].stair = ClampStair(b[key].stair + delta)

DescentAll(T, u, key, delta) ==
  /\ \A d \in 1..TreeDepth : \A a \in {T[d]}, b \in {T[d + 1]} :
       DescentStep(a, b, SubSeq(key, 1, d - 1), SubSeq(key, 1, d))
  /\ \A b \in {T[TreeDepth + 1]} : DescentEnd(b, u, key, delta)

C26_WitnessExpand ==
  /\ last.op = "updateNodeStairs"
  /\ ~last.early
  /\ nops = 1
  /\ DOMAIN tree = {<<>>}
  /\ last.ret = <<>>

----------------------------------------------------------------------------
(* Reading back the stair value just written (Spec) *)

(* getNodeStairLogOdds: the stair log-odds of the node covering key, 0 when *)
(* there is none                                                            *)
getNodeStairLogOdds(t, key) ==
  LET n == search(t, key) IN IF n # NullNode THEN t[n].stair ELSE 0

(* C27: after an updateNodeStairs(key, delta) that did not return early,  *)
(* the stair log-odds of the node covering key is clamp(v + delta), v the *)
(* stair log-odds of the node that covered key before the call.           *)
C27_ReadYourWrite ==
  [][ (Stepped("updateNodeStairs") /\ ~last'.early /\ search(tree, last'.key) # NullNode) =>
        getNodeStairLogOdds(tree', last'.key)
          = ClampStair(getNodeStairLogOdds(tree, last'.key) + last'.arg) ]_vars

(* the part of C27 that the code provides: a leaf that was at key before  *)
(* the call and is still there after it holds the clamped sum             *)
C27_ReadYourWriteAtLeaf ==
  [][ (Stepped("updateNodeStairs") /\ ~last'.early
         /\ last'.key \in DOMAIN tree /\ last'.key \in DOMAIN tree') =>
        getNodeStairLogOdds(tree', last'.key)
          = ClampStair(tree[last'.key].stair + last'.arg) ]_vars

----------------------------------------------------------------------------
(* The empty tree (Spec) *)

(* C28: updateInnerOccupancy on a tree without a root returns to the      *)
(* caller and leaves the tree empty; writeBinaryData of a tree without a  *)
(* root writes no byte.                                                   *)
C28_EmptyTreeNoOps ==
  [][ /\ (Stepped("updateInnerOccupancy") /\ tree = EmptyTree) =>
           (tree' = EmptyTree /\ pc' = "idle")
      /\ tree = EmptyTree =>
           writeBinaryData(tree, binary_encoding_mode, num_binary_bins) = <<>> ]_vars

(* the serialization half of C28, which the code provides *)
C28_EmptyTreeWritesNothing ==
  tree = EmptyTree =>
    writeBinaryData(tree, binary_encoding_mode, num_binary_bins) = <<>>

====
